---- MODULE Spec2Model ----
(***************************************************************************)
(* State-machine model of src/proxies.py (class Proxy_Helper): a MySQL     *)
(* table of proxy records shared by several helper instances, the          *)
(* acquisition transaction (_acquire_next_proxy / rotate_proxy), the       *)
(* per-instance latch (_current_proxy), the session() context manager,     *)
(* mark_current_bad, the ingestion upsert and the validation batches.      *)
(*                                                                         *)
(* The store is modelled by what the SQL statements of the source ask of   *)
(* it: committed rows (pool), one row lock per row (lock) held from a      *)
(* locking statement until COMMIT/ROLLBACK of the owning connection, and   *)
(* UTC_TIMESTAMP() read from a clock (now) that only moves forward.        *)
(***************************************************************************)
EXTENDS Integers, Sequences, FiniteSets, TLC

----------------------------------------------------------------------------
(* Bounds of the model *)

NumRows == 3        \* (ip, port) pairs, i.e. table rows
MaxNow  == 2        \* last value of the store clock

(* Program constants *)

RotateMaxAge  == 1440     \* rotate_proxy: max_age_minutes=1440
DefaultMaxAge == 43200    \* _acquire_next_proxy: max_age_minutes default
ErrLimit      == 500      \* mark_current_bad: message[:500]
RetestStaleMinutes == 720 \* validate_proxies: retest_stale_minutes default
IpLimit       == 45       \* validate_proxies: resp.text.strip()[:45]
TestedIpColumn == 45      \* `tested_ip` VARCHAR(45) NULL
ExcLimit      == 500      \* validate_proxies: str(e)[:500]

(* The store clock is modelled at the granularity of one day: every      *)
(* timestamp is a number of ticks, and a tick is this many minutes.      *)
MinutesPerTick == 24 * 60

Rows    == 1 .. NumRows
Clients == {"c1", "c2"}
Times   == 0 .. MaxNow

(* SQL NULL / Python None, and a present value *)
None    == << >>
Some(x) == << x >>

(* A Python string is modelled by the text it is a prefix of and its     *)
(* length, so that slicing s[:n] is computed rather than assumed.        *)
Str(t, n)   == [text |-> t, len |-> n]
Slice(s, n) == [s EXCEPT !.len = IF s.len < n THEN s.len ELSE n]

----------------------------------------------------------------------------
VARIABLES
    now,            \* UTC_TIMESTAMP() of the store, in ticks
    pool,           \* the committed rows of the table, by row id
    lock,           \* row id -> None or Some(connection holding the row lock)
    pc,             \* client -> "idle" | "begin" | "claimed" | "work"
    ctx,            \* client -> caller of the running rotate_proxy
    current_proxy,  \* client -> self._current_proxy (the latch)
    row,            \* client -> the row dict fetched by the locking SELECT
    ret,            \* client -> outcome of the last _acquire_next_proxy call
    conc,           \* client -> per other client, how many of its calls
                    \* overlapped this client's last call (2: several)
    sess,           \* client -> arguments and locals of the running session()
    bound,          \* client -> s.proxies of the session's requests.Session
    outcome,        \* client -> what the last with-statement gave its caller
    hist,           \* client -> counts kept for the properties (see HistInit)
    job,            \* the validation batch of the maintenance job (see NoJob)
    ingest,         \* the lines of the last refresh (see NoIngest)
    call,           \* the last call of a helper function: its arguments and
                    \* what it returned (see NoCall)
    served,         \* the ids the acquisitions returned, oldest first
    flagged         \* per record: flagged by mark_current_bad and not cleared

poolVars   == << now, pool, lock >>
clientVars == << pc, ctx, current_proxy, row, ret >>
sessVars   == << sess, bound, outcome, hist >>
vars       == << now, pool, lock, pc, ctx, current_proxy, row, ret, conc,
                 sess, bound, outcome, hist, job, ingest, call, served, flagged >>

----------------------------------------------------------------------------
(* The table (module docstring, CREATE TABLE `proxies`) *)

NoRow ==
    [present |-> FALSE, proxy_type |-> "", proxy_url |-> "", source |-> "",
     working |-> 0, tested_timestamp |-> None, last_used_timestamp |-> None,
     latency |-> None, tested_ip |-> None, error_message |-> None]

(* A row as the INSERT of _bulk_upsert creates it: working=0,            *)
(* tested_timestamp=NULL, the other columns at their DEFAULTs.           *)
NewRowWorking(ptype, url, src) ==
    [present |-> TRUE, proxy_type |-> ptype, proxy_url |-> url, source |-> src,
     working |-> 1, tested_timestamp |-> None, last_used_timestamp |-> None,
     latency |-> Some(0), tested_ip |-> None, error_message |-> None]

NewRow(ptype, url, src) ==
    [present |-> TRUE, proxy_type |-> ptype, proxy_url |-> url, source |-> src,
     working |-> 0, tested_timestamp |-> None, last_used_timestamp |-> None,
     latency |-> Some(0), tested_ip |-> None, error_message |-> None]

(* tested_timestamp >= (UTC_TIMESTAMP() - INTERVAL age MINUTE); a NULL   *)
(* timestamp compares as unknown and the row is filtered out.            *)
WithinAge(ts, age) ==
    /\ ts # None
    /\ ts[1] * MinutesPerTick >= now * MinutesPerTick - age

(* WHERE clause of _acquire_next_proxy *)
AcquireWhereNoAge(r, require_working, max_age_minutes) ==
    /\ pool[r].present
    /\ require_working => pool[r].working = 1

AcquireWhereAny(r, require_working, max_age_minutes) == pool[r].present

AcquireWhere(r, require_working, max_age_minutes) ==
    /\ pool[r].present
    /\ require_working =>
          /\ pool[r].working = 1
          /\ WithinAge(pool[r].tested_timestamp, max_age_minutes)

(* ORDER BY (last_used_timestamp IS NULL) DESC, last_used_timestamp ASC, *)
(* latency ASC.  MySQL sorts NULL before every value in ASC order.       *)
NullsFirstLess(x, y) ==
    \/ x = None /\ y # None
    \/ x # None /\ y # None /\ x[1] < y[1]

OrderBeforeLatencyDesc(a, b) ==
    LET ua == pool[a].last_used_timestamp
        ub == pool[b].last_used_timestamp
    IN  \/ ua = None /\ ub # None
        \/ (ua = None) = (ub = None) /\ NullsFirstLess(ua, ub)
        \/ ua = ub /\ NullsFirstLess(pool[b].latency, pool[a].latency)

OrderBefore(a, b) ==
    LET ua == pool[a].last_used_timestamp
        ub == pool[b].last_used_timestamp
    IN  \/ ua = None /\ ub # None
        \/ (ua = None) = (ub = None) /\ NullsFirstLess(ua, ub)
        \/ ua = ub /\ NullsFirstLess(pool[a].latency, pool[b].latency)

(* ... LIMIT 1 FOR UPDATE SKIP LOCKED: the rows that can come out first. *)
(* Rows locked by another connection are skipped; rows that tie on the   *)
(* whole ORDER BY come out in an order SQL leaves open.                  *)
SelectForUpdateNoSkip(c, require_working, max_age_minutes) ==
    LET cands == { r \in Rows : AcquireWhere(r, require_working, max_age_minutes) }
    IN  { r \in cands : /\ \A q \in cands : ~ OrderBefore(q, r)
                        /\ lock[r] \in {None, Some(c)} }

SelectForUpdate(c, require_working, max_age_minutes) ==
    LET cands == { r \in Rows : /\ AcquireWhere(r, require_working, max_age_minutes)
                                /\ lock[r] \in {None, Some(c)} }
    IN  { r \in cands : \A q \in cands : ~ OrderBefore(q, r) }

(* No helper function has been called *)
NoCall == [fn |-> "none"]

(* The dict cursor row: id, ip, port, proxy_url, proxy_type, latency *)
RowDict(r) ==
    [id |-> r, proxy_url |-> pool[r].proxy_url,
     proxy_type |-> pool[r].proxy_type, latency |-> pool[r].latency]

----------------------------------------------------------------------------
(* Acquire / Rotate / Latch *)


(* rotate_proxy: self._current_proxy = None, then _acquire_next_proxy    *)
(* builds its WHERE clause, SET TRANSACTION ... and begin().             *)
AcquireBegin(c, k) ==
    /\ pc' = [pc EXCEPT ![c] = "begin"]
    /\ ctx' = [ctx EXCEPT ![c] = k]
    /\ current_proxy' = [current_proxy EXCEPT ![c] = None]
    /\ ret' = [ret EXCEPT ![c] = "running"]
    /\ UNCHANGED << row, poolVars >>

(* The locking SELECT found a row: it stays locked by this connection.   *)
AcquireSelectRow(c, max_age_minutes) ==
    /\ pc[c] = "begin"
    /\ \E r \in SelectForUpdate(c, TRUE, max_age_minutes) :
          /\ lock' = [lock EXCEPT ![r] = Some(c)]
          /\ row' = [row EXCEPT ![c] = Some(RowDict(r))]
    /\ pc' = [pc EXCEPT ![c] = "claimed"]
    /\ UNCHANGED << now, pool, ctx, current_proxy, ret >>

(* UPDATE ... SET last_used_timestamp = UTC_TIMESTAMP() WHERE id=...;    *)
(* COMMIT; self._current_proxy = row; return row.                        *)
AcquireCommitRow(c) ==
    /\ pc[c] = "claimed"
    /\ pool' = [pool EXCEPT ![row[c][1].id].last_used_timestamp = Some(now)]
    /\ lock' = [r \in Rows |-> IF lock[r] = Some(c) THEN None ELSE lock[r]]
    /\ current_proxy' = [current_proxy EXCEPT ![c] = row[c]]
    /\ row' = [row EXCEPT ![c] = None]
    /\ ret' = [ret EXCEPT ![c] = "row"]
    /\ UNCHANGED now

(* if not row: rollback; return None -- and rotate_proxy stores the None *)
AcquireSelectNone(c, max_age_minutes) ==
    /\ pc[c] = "begin"
    /\ SelectForUpdate(c, TRUE, max_age_minutes) = {}
    /\ current_proxy' = [current_proxy EXCEPT ![c] = None]
    /\ ret' = [ret EXCEPT ![c] = "empty"]
    /\ UNCHANGED << poolVars, row >>

(* Counts kept for the properties, per client:                           *)
(*   runs   runs of the with-body in the current session                 *)
(*   rots   rotate_proxy calls of the except branch in that session      *)
(*   scopes session() scopes entered since the client last called        *)
(*          rotate_proxy itself or had a scope fail (2: two or more)     *)
(*   eacq   acquisitions started by the entries of these scopes          *)
HistInit == [runs |-> 0, rots |-> 0, scopes |-> 0, eacq |-> 0]

(* p.rotate_proxy() called by the application *)
RotateCall(c) ==
    /\ pc[c] = "idle"
    /\ AcquireBegin(c, "rotate")
    /\ hist' = [hist EXCEPT ![c] = HistInit]
    /\ outcome' = [outcome EXCEPT ![c] = None]
    /\ UNCHANGED << sess, bound >>

RotateSelect(c) ==
    /\ ctx[c] = "rotate"
    /\ AcquireSelectRow(c, RotateMaxAge)
    /\ UNCHANGED sessVars

RotateEmpty(c) ==
    /\ ctx[c] = "rotate"
    /\ AcquireSelectNone(c, RotateMaxAge)
    /\ pc' = [pc EXCEPT ![c] = "idle"]
    /\ UNCHANGED << ctx, sessVars >>

RotateCommit(c) ==
    /\ ctx[c] = "rotate"
    /\ AcquireCommitRow(c)
    /\ pc' = [pc EXCEPT ![c] = "idle"]
    /\ UNCHANGED << ctx, sessVars >>

(* except (mysql.Error, Exception): self._rollback(); return None -- a   *)
(* statement of the transaction (the SELECT, the UPDATE or the COMMIT)   *)
(* fails.  The transaction's lock and its UPDATE are gone either way.    *)
(* On a connection that is still up the rollback succeeds and the call   *)
(* returns None; on a connection that went away the rollback raises      *)
(* itself, out of the handler and out of rotate_proxy, whose latch       *)
(* stays cleared.                                                        *)
AcquireStoreError(c, rollback_raises) ==
    /\ pc[c] \in {"begin", "claimed"}
    /\ lock' = [r \in Rows |-> IF lock[r] = Some(c) THEN None ELSE lock[r]]
    /\ row' = [row EXCEPT ![c] = None]
    /\ current_proxy' = [current_proxy EXCEPT ![c] = None]
    /\ ret' = [ret EXCEPT ![c] = IF rollback_raises THEN "raised" ELSE "empty"]
    /\ UNCHANGED << now, pool >>

RotateStoreError(c, rollback_raises) ==
    /\ ctx[c] = "rotate"
    /\ AcquireStoreError(c, rollback_raises)
    /\ pc' = [pc EXCEPT ![c] = "idle"]
    /\ UNCHANGED << ctx, sessVars >>

(* The store clock moves on *)
Tick ==
    /\ now < MaxNow
    /\ now' = now + 1
    /\ UNCHANGED << pool, lock, clientVars, sessVars >>

----------------------------------------------------------------------------
(* Refresh / Download / Upsert *)

(* The (ip, port) pairs listed by the download sources, named by the id  *)
(* of the row that holds or will hold them.                              *)
Downloaded == {1, 2}

(* _normalize_proxy_row of a bare "ip:port" line with default_type       *)
(* SOCKS5: scheme socks5, proxy_url socks5://ip:port.                    *)
Item(k) ==
    [key |-> k, proxy_url |-> "socks5", proxy_type |-> "SOCKS5",
     source |-> "github_socks5"]

ItemLists ==
    { << Item(k) >> : k \in Downloaded } \cup { << Item(1), Item(2), Item(1) >> }

(* De-dup in memory by (ip, port): an item is kept if its key was not    *)
(* seen before.                                                          *)
RECURSIVE DedupSeen(_, _)
DedupSeen(items, seen) ==
    IF items = << >> THEN << >>
    ELSE LET it == Head(items)
         IN  IF it.key \in seen
             THEN DedupSeen(Tail(items), seen)
             ELSE << it >> \o DedupSeen(Tail(items), seen \cup {it.key})

(* INSERT ... VALUES (...,0,NULL) ON DUPLICATE KEY UPDATE proxy_url,     *)
(* proxy_type, source: the table p after the statement for the deduped   *)
(* items.                                                                *)
ItemKeys(deduped) == { deduped[i].key : i \in 1 .. Len(deduped) }
ItemFor(deduped, k) ==
    deduped[CHOOSE i \in 1 .. Len(deduped) : deduped[i].key = k]

UpsertedResetting(p, deduped) ==
    [r \in Rows |->
       IF r \notin ItemKeys(deduped) THEN p[r]
       ELSE LET val == ItemFor(deduped, r)
            IN  IF p[r].present
                THEN [p[r] EXCEPT !.proxy_url = val.proxy_url,
                                  !.proxy_type = val.proxy_type,
                                  !.source = val.source,
                                  !.working = 0, !.tested_timestamp = None]
                ELSE NewRow(val.proxy_type, val.proxy_url, val.source)]

UpsertedReplacing(p, deduped) ==
    [r \in Rows |->
       IF r \notin ItemKeys(deduped) THEN p[r]
       ELSE LET val == ItemFor(deduped, r)
            IN  NewRow(val.proxy_type, val.proxy_url, val.source)]

Upserted(p, deduped) ==
    [r \in Rows |->
       IF r \notin ItemKeys(deduped) THEN p[r]
       ELSE LET val == ItemFor(deduped, r)
            IN  IF p[r].present
                THEN [p[r] EXCEPT !.proxy_url = val.proxy_url,
                                  !.proxy_type = val.proxy_type,
                                  !.source = val.source]
                ELSE NewRow(val.proxy_type, val.proxy_url, val.source)]

(* _bulk_upsert(items): dedup, executemany, commit.  A duplicate key     *)
(* whose row is locked by an open transaction makes the statement wait.  *)
BulkUpsert(items) ==
    /\ items # << >>
    /\ LET deduped == DedupSeen(items, {})
       IN  /\ \A k \in ItemKeys(deduped) : lock[k] = None
           /\ pool' = Upserted(pool, deduped)
    /\ UNCHANGED << now, lock, clientVars, sessVars >>

(* A downloaded line: its scheme prefix ("" when bare) and its ip:port,  *)
(* named by the row that holds or will hold the pair; each comes with    *)
(* the label of the source it was downloaded from.                       *)
Line(scheme, k, label) == [scheme |-> scheme, key |-> k, label |-> label]

Upper(type) == CASE type = "socks5" -> "SOCKS5"
                 [] type = "socks4" -> "SOCKS4"
                 [] type = "http"   -> "HTTP"
                 [] type = "https"  -> "HTTPS"
                 [] OTHER           -> type

(* _normalize_proxy_row(raw, default_type, source) of a line that        *)
(* matches IP_PORT_RE; proxy_url is scheme://ip:port, held as its scheme *)
NormalizeProxyRow(raw, default_type, source) ==
    LET proxy_type == IF raw.scheme \in {"http", "https"} THEN "HTTP"
                      ELSE IF raw.scheme = "socks5" THEN "SOCKS5"
                      ELSE IF raw.scheme = "socks4" THEN "SOCKS4"
                      ELSE Upper(default_type)
        scheme     == IF raw.scheme \in {"http", "https"} THEN "http"
                      ELSE IF raw.scheme \in {"socks5", "socks4"} THEN raw.scheme
                      ELSE IF proxy_type = "SOCKS5" THEN "socks5" ELSE "http"
    IN  [key |-> raw.key, proxy_url |-> scheme, proxy_type |-> proxy_type,
         source |-> source]

(* refresh_proxies: items = the normalized rows of the lines, in order *)
RefreshItems(lines) ==
    [i \in 1 .. Len(lines) |->
        NormalizeProxyRow(lines[i], "SOCKS5", lines[i].label)]

(* The downloads of a refresh: a bare pair followed by the same pair     *)
(* with its scheme spelled out, a pair listed by two sources under       *)
(* different schemes, and lists naming a second pair.                    *)
Downloads ==
    { << Line("", 1, "github_socks5"), Line("socks5", 1, "github_socks5") >>,
      << Line("", 1, "github_socks5"), Line("http", 1, "github_http") >>,
      << Line("https", 2, "github_http") >>,
      << Line("socks4", 2, "github"), Line("", 1, "github") >>,
      << Line("", 1, "github_socks5"), Line("http", 2, "github_http") >> }

(* refresh_proxies(force=True, test_all=False) up to its upsert; `ingest` *)
(* remembers the lines, whether the refresh before had the same ones,    *)
(* which of their pairs were recorded as working when it ran, which had  *)
(* no record yet, and where the validation batch of the maintenance job  *)
(* was then, on which rows.                                              *)
NoIngest == [lines |-> << >>, again |-> FALSE, working |-> {}, created |-> {},
             during |-> "idle", batch |-> {}]

LineKeys(lines) == { lines[i].key : i \in 1 .. Len(lines) }

RefreshUpsert(lines) ==
    /\ BulkUpsert(RefreshItems(lines))
    /\ ingest' = [lines |-> lines, again |-> ingest.lines = lines,
                  working |-> { k \in LineKeys(lines) : pool[k].working = 1 },
                  created |-> { k \in LineKeys(lines) : ~pool[k].present },
                  during |-> job.pc,
                  batch |-> IF job.pc = "idle" THEN {} ELSE job.rows]

----------------------------------------------------------------------------
(* Validation *)

(* What a probe through a proxy gives: an HTTP response (status, body,   *)
(* seconds elapsed) or an exception.  A body is its text without the     *)
(* surrounding whitespace (core) and the whitespace around it.           *)
Body(lead, core, trail) == [lead |-> lead, core |-> core, trail |-> trail]
Strip(b)                == b.core

Response(status, body, elapsed) ==
    [kind |-> "response", status |-> status, text |-> body, elapsed |-> elapsed]
Failure(msg) == [kind |-> "exception", msg |-> msg]

ProbeOutcomes ==
    { Response(200, Body(0, Str("1.2.3.4", 7), 1), 10),
      Response(200, Body(0, Str("", 0), 1), 10),
      Response(503, Body(0, Str("busy", 4), 0), 10),
      Failure(Str("timed out", ExcLimit + 100)) }

HttpErr(status) == Str(<< "HTTP ", status >>, 8)

(* _one(r) of validate_proxies *)
OneOkOnAnyStatus(o) ==
    IF o.kind = "exception"
    THEN [ok |-> 0, latency |-> None, tested_ip |-> None,
          err |-> Some(Slice(o.msg, ExcLimit))]
    ELSE IF o.status = 200
         THEN LET ip == Slice(Strip(o.text), IpLimit)
              IN  [ok |-> IF ip.len > 0 THEN 1 ELSE 0, latency |-> Some(o.elapsed),
                   tested_ip |-> Some(ip), err |-> None]
         ELSE [ok |-> 1, latency |-> Some(o.elapsed), tested_ip |-> None,
               err |-> Some(HttpErr(o.status))]

One(o) ==
    IF o.kind = "exception"
    THEN [ok |-> 0, latency |-> None, tested_ip |-> None,
          err |-> Some(Slice(o.msg, ExcLimit))]
    ELSE IF o.status = 200
         THEN LET ip == Slice(Strip(o.text), IpLimit)
              IN  [ok |-> IF ip.len > 0 THEN 1 ELSE 0, latency |-> Some(o.elapsed),
                   tested_ip |-> Some(ip), err |-> None]
         ELSE [ok |-> 0, latency |-> Some(o.elapsed), tested_ip |-> None,
               err |-> Some(HttpErr(o.status))]

(* UPDATE ... SET working, tested_timestamp=UTC_TIMESTAMP(), latency,    *)
(* tested_ip, error_message WHERE id: the row after the statement.       *)
WriteBackAsNew(r, u) ==
    [pool[r] EXCEPT !.working = u.ok, !.tested_timestamp = Some(now),
                    !.latency = u.latency, !.tested_ip = u.tested_ip,
                    !.error_message = u.err, !.last_used_timestamp = None]

WriteBackWorkingOnly(r, u) ==
    [pool[r] EXCEPT !.working = u.ok, !.tested_timestamp = Some(now)]

WriteBack(r, u) ==
    [pool[r] EXCEPT !.working = u.ok, !.tested_timestamp = Some(now),
                    !.latency = u.latency, !.tested_ip = u.tested_ip,
                    !.error_message = u.err]

(* WHERE tested_timestamp IS NULL OR tested_timestamp <                  *)
(* (UTC_TIMESTAMP() - INTERVAL retest_stale_minutes MINUTE)              *)
ValidateWhere(r, retest_stale_minutes) ==
    /\ pool[r].present
    /\ \/ pool[r].tested_timestamp = None
       \/ pool[r].tested_timestamp[1] * MinutesPerTick
             < now * MinutesPerTick - retest_stale_minutes

(* SELECT ... LIMIT n without ORDER BY: any n of the matching rows *)
Batches(matching, limit) ==
    { B \in SUBSET matching :
        Cardinality(B) = IF Cardinality(matching) < limit
                         THEN Cardinality(matching) ELSE limit }

Limits == {1, 2}

(* validate_proxies(limit): select, probe every row, write the results   *)
(* back and commit.  An UPDATE of a row locked by an open transaction    *)
(* waits for it.                                                         *)
ValidateProxies(limit) ==
    /\ \E B \in Batches({ r \in Rows : ValidateWhere(r, RetestStaleMinutes) }, limit) :
          /\ B # {}
          /\ \A r \in B : lock[r] = None
          /\ \E o \in [B -> ProbeOutcomes] :
                pool' = [r \in Rows |->
                           IF r \in B THEN WriteBack(r, One(o[r])) ELSE pool[r]]
    /\ UNCHANGED << now, lock, clientVars, sessVars >>

(* test_proxy: success needs status 200 and a non-empty body of fewer    *)
(* than 50 characters; the result string names the body and the protocol *)
TestProxy(o) ==
    IF /\ o.kind = "response" /\ o.status = 200
       /\ Strip(o.text).len > 0 /\ Strip(o.text).len < 50
    THEN [success |-> TRUE,
          result  |-> [head |-> "Working - IP: ", content |-> Strip(o.text),
                       via |-> " (via socks5)"]]
    ELSE [success |-> FALSE,
          result  |-> Str("All protocols failed: socks5", 28)]

(* _test_proxy(r) of test_all_proxies: tested_ip is what follows "IP: "  *)
(* in the result string; no latency is reported.                         *)
TestOne(o) ==
    LET t == TestProxy(o)
    IN  IF t.success
        THEN [ok |-> 1, latency |-> None,
              tested_ip |-> Some(Str(<< t.result.content.text, t.result.via >>,
                                     t.result.content.len + 13)),
              err |-> None]
        ELSE [ok |-> 0, latency |-> None, tested_ip |-> None,
              err |-> Some(t.result)]

TestOutcomes ==
    { Response(200, Body(0, Str("1.2.3.4", 7), 1), 10),
      Failure(Str("timed out", ExcLimit + 100)) }

(* test_all_proxies(limit): every row, or any `limit` rows *)
TestAllProxies(limit) ==
    /\ \E B \in Batches({ r \in Rows : pool[r].present },
                        IF limit = None THEN NumRows ELSE limit[1]) :
          /\ B # {}
          /\ \A r \in B : lock[r] = None
          /\ \E o \in [B -> TestOutcomes] :
                pool' = [r \in Rows |->
                           IF r \in B THEN WriteBack(r, TestOne(o[r])) ELSE pool[r]]
    /\ UNCHANGED << now, lock, clientVars, sessVars >>

----------------------------------------------------------------------------
(* A validation batch step by step: the SELECT, the probes as they       *)
(* complete, the UPDATE statements of the write-back loop, the COMMIT,   *)
(* and a KeyboardInterrupt at any point in between.                      *)

(* The batch of the maintenance job:                                     *)
(*   pc      "idle" | "probing" | "writing"                              *)
(*   kind    the entry point that runs                                   *)
(*   rows    the ids fetched by the SELECT (kept, once an exception has  *)
(*           ended the batch, as the batch that exception ended)         *)
(*   probe   id -> None, or Some(what the probe of that row gave)        *)
(*   pending id -> None, or Some(the row as its UPDATE left it in the    *)
(*           open transaction)                                           *)
(*   ret     None or Some(returned count)                                *)
(*   exc     None or Some(the exception raised): "KeyboardInterrupt" or  *)
(*           "DataError"                                                 *)
NoJob ==
    [pc |-> "idle", kind |-> "none", rows |-> {},
     probe |-> [r \in Rows |-> None], pending |-> [r \in Rows |-> None],
     ret |-> None, exc |-> None]

JobConn == "job"

(* The probes of a batch also meet a 200 response with a long body and  *)
(* one whose body is an IPv6 address written in full (39 characters).    *)
BatchOutcomes ==
    ProbeOutcomes \cup { Response(200, Body(0, Str("<html>", 60), 0), 10),
                         Response(200, Body(0, Str("2001:0db8:", 39), 1), 10) }

(* The entry points: test_working_proxies, test_failed_proxies and       *)
(* test_untested_proxies are _test_proxies_with_condition with the       *)
(* condition they pass.                                                  *)
Kinds == {"validate_proxies", "test_all_proxies", "_test_proxies_with_condition"}

Conditions(kind) ==
    IF kind = "_test_proxies_with_condition"
    THEN {"working=1", "working=0", "tested_timestamp IS NULL"}
    ELSE {"-"}

(* The WHERE clause of each entry point *)
BatchWhere(kind, condition, r) ==
    /\ pool[r].present
    /\ CASE kind = "validate_proxies"            -> ValidateWhere(r, RetestStaleMinutes)
         [] condition = "working=1"               -> pool[r].working = 1
         [] condition = "working=0"               -> pool[r].working = 0
         [] condition = "tested_timestamp IS NULL" -> pool[r].tested_timestamp = None
         [] OTHER                                 -> TRUE

(* _one for validate_proxies, _test_proxy for the test_* entry points *)
BatchResult(kind, o) ==
    IF kind = "validate_proxies" THEN One(o) ELSE TestOne(o)

(* rows = cur.fetchall(); if not rows: return 0 *)
BatchSelect(kind, condition, limit) ==
    /\ job.pc = "idle"
    /\ \E B \in Batches({ r \in Rows : BatchWhere(kind, condition, r) }, limit) :
          job' = IF B = {}
                 THEN [NoJob EXCEPT !.ret = Some(0)]
                 ELSE [NoJob EXCEPT !.pc = "probing", !.kind = kind, !.rows = B]
    /\ UNCHANGED << poolVars, clientVars, sessVars >>

(* for f in as_completed(futs): updates.append(f.result()) *)
BatchProbe(r, o) ==
    /\ job.pc = "probing"
    /\ r \in job.rows
    /\ job.probe[r] = None
    /\ job' = [job EXCEPT !.probe[r] = Some(o),
                          !.pc = IF \A q \in job.rows \ {r} : job.probe[q] # None
                                 THEN "writing" ELSE "probing"]
    /\ UNCHANGED << poolVars, clientVars, sessVars >>

(* The `updates` the write-back loop runs over *)
BatchUpdates(j) == { r \in j.rows : j.probe[r] # None }

(* The value fits the tested_ip column; a value that does not is cut to  *)
(* the column's width by a server whose sql_mode is not strict, and      *)
(* refused (error 1406, pymysql.err.DataError) by a strict one.          *)
Fits(u)   == u.tested_ip = None \/ u.tested_ip[1].len <= TestedIpColumn
Stored(u) == IF Fits(u) THEN u
             ELSE [u EXCEPT !.tested_ip = Some(Slice(u.tested_ip[1], TestedIpColumn))]

(* cur.execute(UPDATE ... WHERE id=pid) inside the open transaction: the *)
(* row stays locked by the job's connection; a row locked by another     *)
(* transaction makes the statement wait.                                 *)
BatchWrite(r) ==
    /\ job.pc = "writing"
    /\ r \in BatchUpdates(job)
    /\ job.pending[r] = None
    /\ lock[r] = None
    /\ job' = [job EXCEPT !.pending[r] =
                  Some(WriteBack(r, Stored(BatchResult(job.kind, job.probe[r][1]))))]
    /\ lock' = [lock EXCEPT ![r] = Some(JobConn)]
    /\ UNCHANGED << now, pool, clientVars, sessVars >>

(* The rows of the open transaction become the committed rows *)
Committed ==
    [r \in Rows |-> IF job.pending[r] = None THEN pool[r] ELSE job.pending[r][1]]

Released ==
    [r \in Rows |-> IF lock[r] = Some(JobConn) THEN None ELSE lock[r]]

(* self._commit(); return len(updates) *)
BatchCommit ==
    /\ job.pc = "writing"
    /\ \A r \in BatchUpdates(job) : job.pending[r] # None
    /\ pool' = Committed
    /\ lock' = Released
    /\ job' = [NoJob EXCEPT !.ret = Some(Cardinality(BatchUpdates(job)))]
    /\ UNCHANGED << now, clientVars, sessVars >>

(* except KeyboardInterrupt: print(...); raise -- neither commit nor     *)
(* rollback runs, so the UPDATEs done so far are in an open transaction. *)
(* Either the process ends and the server rolls that transaction back    *)
(* ...                                                                   *)
BatchInterruptExit ==
    /\ job.pc \in {"probing", "writing"}
    /\ lock' = Released
    /\ job' = [NoJob EXCEPT !.exc = Some("KeyboardInterrupt"), !.rows = job.rows]
    /\ UNCHANGED << now, pool, clientVars, sessVars >>

(* ... or the caller goes on with the helper, whose next self._commit()  *)
(* commits it.                                                           *)
BatchInterruptCommit ==
    /\ job.pc \in {"probing", "writing"}
    /\ pool' = Committed
    /\ lock' = Released
    /\ job' = [NoJob EXCEPT !.exc = Some("KeyboardInterrupt"), !.rows = job.rows]
    /\ UNCHANGED << now, clientVars, sessVars >>

(* except Exception as e: print(...); raise -- the UPDATE of a value the *)
(* strict server refuses raises out of the write-back loop; as after an  *)
(* interrupt, the open transaction is rolled back when the process ends  *)
(* or committed by the helper's next self._commit().                     *)
BatchDataError(r, later_commit) ==
    /\ job.pc = "writing"
    /\ r \in BatchUpdates(job)
    /\ job.pending[r] = None
    /\ lock[r] = None
    /\ ~Fits(BatchResult(job.kind, job.probe[r][1]))
    /\ pool' = IF later_commit THEN Committed ELSE pool
    /\ lock' = Released
    /\ job' = [NoJob EXCEPT !.exc = Some("DataError"), !.rows = job.rows]
    /\ UNCHANGED << now, clientVars, sessVars >>

----------------------------------------------------------------------------
(* Raw lines and IP_PORT_RE *)

(* A raw line is blank (after strip), a comment, or text: what stands    *)
(* before "://" ("" when there is no "://"), the characters of the host  *)
(* part, the number of digits after the last colon, and the pair it      *)
(* names.                                                                *)
BlankLine   == [kind |-> "blank"]
CommentLine == [kind |-> "comment"]
TextLine(scheme, host, digits, k) ==
    [kind |-> "text", scheme |-> scheme, host |-> host, digits |-> digits,
     key |-> k]

(* (?P<scheme>https?|socks5|socks4): the prefixes the group matches *)
SchemeGroup == {"http", "https", "socks5", "socks4"}

(* [A-Za-z0-9\.\-:] *)
IpClass == {"alnum", ".", "-", ":"}

(* IP_PORT_RE.match(raw): the optional group takes a listed prefix with  *)
(* its "://"; any other prefix is left to the ip group, which its "/"    *)
(* does not fit; the ip group needs one character or more, all of its    *)
(* class, and the port 2 to 5 digits up to the end.                      *)
IpPortMatch(raw) ==
    LET ip == IF raw.scheme \in SchemeGroup \cup {""}
              THEN raw.host ELSE raw.host \cup {"alnum", ":", "/"}
    IN  /\ ip # {}
        /\ ip \subseteq IpClass
        /\ raw.digits >= 2 /\ raw.digits <= 5

(* _normalize_proxy_row(raw, default_type, source): None for a blank     *)
(* line, a comment and a line that does not match; s.lower() makes no    *)
(* difference to a prefix of the group, which is lower case already.     *)
NormalizeRaw(raw, default_type, source) ==
    IF raw.kind # "text" THEN None
    ELSE IF ~IpPortMatch(raw) THEN None
    ELSE Some(NormalizeProxyRow(Line(raw.scheme, raw.key, source),
                                default_type, source))

RawSchemes  == SchemeGroup \cup {"", "HTTP", "ftp"}
RawHosts    == { {"alnum", "."}, {"alnum", "_"}, {} }
RawDigits   == {1, 2, 5, 6}
RawLines    ==
    {BlankLine, CommentLine}
      \cup { TextLine(sc, h, d, 1) : sc \in RawSchemes, h \in RawHosts, d \in RawDigits }
DefaultTypes == {"SOCKS5", "SOCKS4", "HTTP", "socks5"}

CallNormalize(raw, default_type) ==
    /\ call' = [fn |-> "_normalize_proxy_row", raw |-> raw,
                default_type |-> default_type,
                result |-> NormalizeRaw(raw, default_type, "github")]
    /\ UNCHANGED << poolVars, clientVars, sessVars >>

----------------------------------------------------------------------------
(* test_proxy: the protocols it tries *)

(* proxy_str: what stands before "://" ("" when there is none), whether  *)
(* the rest has a colon, and whether int() takes what follows the last   *)
(* colon.                                                                *)
ProxyStr(scheme, colon, port_int) ==
    [scheme |-> scheme, colon |-> colon, port_int |-> port_int]

(* protocol_map.get(key, default): the keys are lower case *)
ProtocolMapGet(key, default) ==
    IF key \in {"socks5", "socks4", "http", "https"} THEN key ELSE default

(* The fallback lists of verbose mode, by primary protocol *)
Fallbacks(primary) ==
    CASE primary = "socks5" -> << "socks5", "socks4", "https", "http" >>
      [] primary = "socks4" -> << "socks4", "socks5", "https", "http" >>
      [] primary = "https"  -> << "https", "http", "socks5", "socks4" >>
      [] primary = "http"   -> << "http", "https", "socks5", "socks4" >>
      [] OTHER              -> << primary >>

(* protocols_to_try as test_proxy builds it *)
ProtocolsToTry(proxy_str, proxy_type, verbose) ==
    LET first == IF proxy_str.scheme # "" THEN << proxy_str.scheme >>
                 ELSE IF proxy_type # None
                      THEN << ProtocolMapGet(Upper(proxy_type[1]), "socks5") >>
                      ELSE << "socks5", "socks4", "https", "http" >>
    IN  IF proxy_type # None /\ ~verbose THEN << first[1] >>
        ELSE IF verbose /\ Len(first) = 1 THEN Fallbacks(first[1])
        ELSE first

(* for protocol in protocols_to_try: the protocols up to and with the    *)
(* first that returns status 200 and a non-empty body of fewer than 50   *)
(* characters (those of `works`), or all of them.                        *)
RECURSIVE TriedUpTo(_, _)
TriedUpTo(protocols, works) ==
    IF protocols = << >> THEN << >>
    ELSE IF Head(protocols) \in works THEN << Head(protocols) >>
    ELSE << Head(protocols) >> \o TriedUpTo(Tail(protocols), works)

(* test_proxy(proxy_str, timeout, proxy_type, verbose) -> (success,      *)
(* result); `tried` lists the protocols a request was made through.      *)
TestProxyRun(proxy_str, proxy_type, verbose, works) ==
    IF ~proxy_str.colon
    THEN [success |-> FALSE, result |-> "Invalid proxy format", tried |-> << >>]
    ELSE IF ~proxy_str.port_int
    THEN [success |-> FALSE, result |-> "Invalid port number", tried |-> << >>]
    ELSE LET protocols == ProtocolsToTry(proxy_str, proxy_type, verbose)
             tried     == TriedUpTo(protocols, works)
         IN  IF tried[Len(tried)] \in works
             THEN [success |-> TRUE,
                   result |-> << "Working - IP: ", "content", " (via ",
                                 tried[Len(tried)], ")" >>,
                   tried |-> tried]
             ELSE [success |-> FALSE,
                   result |-> << "All protocols failed: ", protocols >>,
                   tried |-> tried]

Protocols   == {"socks5", "socks4", "https", "http"}
ProxyStrs   ==
    { ProxyStr(sc, TRUE, TRUE) : sc \in Protocols \cup {""} }
      \cup { ProxyStr("", FALSE, TRUE), ProxyStr("", TRUE, FALSE) }
ProxyTypes  == { None, Some("SOCKS5"), Some("SOCKS4"), Some("HTTP") }

CallTestProxy(proxy_str, proxy_type, verbose, works) ==
    /\ call' = [fn |-> "test_proxy", proxy_str |-> proxy_str,
                proxy_type |-> proxy_type, verbose |-> verbose, works |-> works,
                result |-> TestProxyRun(proxy_str, proxy_type, verbose, works)]
    /\ UNCHANGED << poolVars, clientVars, sessVars >>

----------------------------------------------------------------------------
(* Misc helpers *)

(* UPDATE ... SET working=0, error_message=message[:500] WHERE id *)
MarkBadUpdateNoFlag(r, message) ==
    [r EXCEPT !.error_message = Some(Slice(message, ErrLimit))]

MarkBadUpdate(r, message) ==
    [r EXCEPT !.working = 0, !.error_message = Some(Slice(message, ErrLimit))]

(* The reasons the application passes: one that just fits the limit and  *)
(* one that is a character longer.                                       *)
Messages == { Str("bad", ErrLimit), Str("bad", ErrLimit + 1) }

MarkCurrentBadUnlatching(c, message) ==
    /\ pc[c] = "idle"
    /\ IF current_proxy[c] = None
       THEN UNCHANGED pool
       ELSE /\ lock[current_proxy[c][1].id] = None
            /\ pool' = [pool EXCEPT ![current_proxy[c][1].id] =
                                       MarkBadUpdate(@, message)]
    /\ current_proxy' = [current_proxy EXCEPT ![c] = None]
    /\ UNCHANGED << now, lock, pc, ctx, row, ret, sessVars >>

(* mark_current_bad(message) *)
MarkCurrentBad(c, message) ==
    /\ pc[c] = "idle"
    /\ IF current_proxy[c] = None
       THEN UNCHANGED pool
       ELSE /\ lock[current_proxy[c][1].id] = None
            /\ pool' = [pool EXCEPT ![current_proxy[c][1].id] =
                                       MarkBadUpdate(@, message)]
    /\ UNCHANGED << now, lock, clientVars, sessVars >>

----------------------------------------------------------------------------
(* Requests Session: the session() context manager *)

(* _requests_proxy_mapping: socks5:// becomes socks5h://, socks4://      *)
(* becomes socks4a:// when the type starts with SOCKS; the same URL is   *)
(* used for http and https.                                              *)
RequestsProxyMapping(p) ==
    [id |-> p.id,
     url |-> IF p.proxy_type \in {"SOCKS5", "SOCKS4"}
             THEN CASE p.proxy_url = "socks5" -> "socks5h"
                    [] p.proxy_url = "socks4" -> "socks4a"
                    [] OTHER -> p.proxy_url
             ELSE p.proxy_url]

(* _bind(): nothing when the latch is empty, else s.proxies.update(...)  *)
Bind(old, cp) == IF cp = None THEN old ELSE Some(RequestsProxyMapping(cp[1]))

NoSession == [auto |-> FALSE, retries |-> 0, attempt |-> 0]

(* Exceptions: the one the caller's work raised in its n-th run, and the *)
(* one contextlib raises when the generator yields again after throw().  *)
WorkError(n)  == << "WorkError", n >>
RuntimeError  == << "RuntimeError", "generator didn't stop after throw()" >>
Returned      == << "ok" >>
Raised(e)     == << "raised", e >>

UpTo2(n) == IF n < 2 THEN n + 1 ELSE 2

RetryChoices == {0, 1, 2}

(* if not self._current_proxy: self.rotate_proxy() *)
EntryAcquiresAlways(c) == TRUE

EntryAcquires(c) == current_proxy[c] = None

(* with p.session(auto_rotate_on_fail=a, retries=n) as s: -- up to the   *)
(* first yield when a proxy is latched, else up to the locking SELECT.   *)
SessionEnter(c, a, n) ==
    /\ pc[c] = "idle"
    /\ sess' = [sess EXCEPT ![c] = [auto |-> a, retries |-> n, attempt |-> 0]]
    /\ outcome' = [outcome EXCEPT ![c] = None]
    /\ IF EntryAcquires(c)
       THEN /\ AcquireBegin(c, "enter")
            /\ bound' = [bound EXCEPT ![c] = None]
            /\ hist' = [hist EXCEPT ![c] =
                          [runs |-> 0, rots |-> 0,
                           scopes |-> UpTo2(@.scopes), eacq |-> UpTo2(@.eacq)]]
       ELSE /\ pc' = [pc EXCEPT ![c] = "work"]
            /\ bound' = [bound EXCEPT ![c] = Bind(None, current_proxy[c])]
            /\ hist' = [hist EXCEPT ![c] =
                          [runs |-> 0, rots |-> 0,
                           scopes |-> UpTo2(@.scopes), eacq |-> @.eacq]]
            /\ UNCHANGED << poolVars, ctx, current_proxy, row, ret >>

EnterSelect(c) ==
    /\ ctx[c] = "enter"
    /\ AcquireSelectRow(c, RotateMaxAge)
    /\ UNCHANGED sessVars

EnterEmptyRaising(c) ==
    /\ ctx[c] = "enter"
    /\ AcquireSelectNone(c, RotateMaxAge)
    /\ pc' = [pc EXCEPT ![c] = "idle"]
    /\ outcome' = [outcome EXCEPT ![c] = Raised(RuntimeError)]
    /\ sess' = [sess EXCEPT ![c] = NoSession]
    /\ UNCHANGED << ctx, bound, hist >>

(* rotate_proxy found nothing: s = requests.Session(); _bind() returns   *)
(* at once; yield s                                                      *)
EnterEmpty(c) ==
    /\ ctx[c] = "enter"
    /\ AcquireSelectNone(c, RotateMaxAge)
    /\ pc' = [pc EXCEPT ![c] = "work"]
    /\ bound' = [bound EXCEPT ![c] = Bind(None, None)]
    /\ UNCHANGED << ctx, sess, outcome, hist >>

EnterCommit(c) ==
    /\ ctx[c] = "enter"
    /\ AcquireCommitRow(c)
    /\ pc' = [pc EXCEPT ![c] = "work"]
    /\ bound' = [bound EXCEPT ![c] = Bind(None, row[c])]
    /\ UNCHANGED << ctx, sess, outcome, hist >>

(* The with-body ends normally: the generator resumes after its yield,   *)
(* runs finally: s.close() and stops.                                    *)
WorkOk(c) ==
    /\ pc[c] = "work"
    /\ pc' = [pc EXCEPT ![c] = "idle"]
    /\ outcome' = [outcome EXCEPT ![c] = Returned]
    /\ bound' = [bound EXCEPT ![c] = None]
    /\ sess' = [sess EXCEPT ![c] = NoSession]
    /\ hist' = [hist EXCEPT ![c].runs = @ + 1]
    /\ UNCHANGED << poolVars, ctx, current_proxy, row, ret >>

(* The with-body raises e, which contextlib throws into the generator at *)
(* its yield.  if not auto_rotate_on_fail or retries <= 0: raise         *)
WorkFailRaise(c) ==
    /\ pc[c] = "work"
    /\ ~ sess[c].auto \/ sess[c].retries <= 0
    /\ pc' = [pc EXCEPT ![c] = "idle"]
    /\ outcome' = [outcome EXCEPT ![c] = Raised(WorkError(hist[c].runs + 1))]
    /\ bound' = [bound EXCEPT ![c] = None]
    /\ sess' = [sess EXCEPT ![c] = NoSession]
    /\ hist' = [hist EXCEPT ![c].runs = @ + 1, ![c].scopes = 0, ![c].eacq = 0]
    /\ UNCHANGED << poolVars, ctx, current_proxy, row, ret >>

(* ... else attempt = 0; last_exc = e; while attempt < retries:          *)
(* attempt += 1; self.rotate_proxy()                                     *)
WorkFailRotateAlways(c) ==
    /\ pc[c] = "work"
    /\ sess[c].retries > 0
    /\ AcquireBegin(c, "retry")
    /\ sess' = [sess EXCEPT ![c].attempt = @ + 1]
    /\ hist' = [hist EXCEPT ![c].runs = @ + 1, ![c].rots = @ + 1,
                            ![c].scopes = 0, ![c].eacq = 0]
    /\ UNCHANGED << bound, outcome >>

WorkFailRotate(c) ==
    /\ pc[c] = "work"
    /\ sess[c].auto /\ sess[c].retries > 0
    /\ AcquireBegin(c, "retry")
    /\ sess' = [sess EXCEPT ![c].attempt = @ + 1]
    /\ hist' = [hist EXCEPT ![c].runs = @ + 1, ![c].rots = @ + 1,
                            ![c].scopes = 0, ![c].eacq = 0]
    /\ UNCHANGED << bound, outcome >>

RetrySelect(c) ==
    /\ ctx[c] = "retry"
    /\ AcquireSelectRow(c, RotateMaxAge)
    /\ UNCHANGED sessVars

(* rotate_proxy found nothing; _bind() returns at once and leaves        *)
(* s.proxies as it was; time.sleep(...); yield s                         *)
RetryEmpty(c) ==
    /\ ctx[c] = "retry"
    /\ AcquireSelectNone(c, RotateMaxAge)
    /\ pc' = [pc EXCEPT ![c] = "reyield"]
    /\ bound' = [bound EXCEPT ![c] = Bind(@, None)]
    /\ UNCHANGED << ctx, sess, outcome, hist >>

RetryCommit(c) ==
    /\ ctx[c] = "retry"
    /\ AcquireCommitRow(c)
    /\ pc' = [pc EXCEPT ![c] = "reyield"]
    /\ bound' = [bound EXCEPT ![c] = Bind(@, row[c])]
    /\ UNCHANGED << ctx, sess, outcome, hist >>

(* The generator yielded inside throw(): contextlib's __exit__ raises    *)
(* RuntimeError("generator didn't stop after throw()") to the caller of  *)
(* the with-statement, whose body is not run again.  Closing the         *)
(* suspended generator raises GeneratorExit at the yield, which the      *)
(* except Exception clause lets through to finally: s.close().           *)
ReYield(c) ==
    /\ pc[c] = "reyield"
    /\ pc' = [pc EXCEPT ![c] = "idle"]
    /\ outcome' = [outcome EXCEPT ![c] = Raised(RuntimeError)]
    /\ bound' = [bound EXCEPT ![c] = None]
    /\ sess' = [sess EXCEPT ![c] = NoSession]
    /\ UNCHANGED << poolVars, ctx, current_proxy, row, ret, hist >>

----------------------------------------------------------------------------
(* Acquisition over a pool that was ingested and validated before:       *)
(* every row is either still untested or was validated at tick 1, and    *)
(* was last used never or at tick 0.  PoolABC is the pool of three       *)
(* records A (never used, latency 50), B (never used, latency 10) and    *)
(* C (used earlier, latency 5).                                          *)

ValidatedRow(l, u) ==
    [NewRow("SOCKS5", "socks5", "github_socks5") EXCEPT
        !.working = 1, !.tested_timestamp = Some(1), !.latency = Some(l),
        !.tested_ip = Some(Str("ip", 7)), !.last_used_timestamp = u]

UntestedRow == NewRow("SOCKS5", "socks5", "github_socks5")

AcqRows ==
    {UntestedRow} \cup { ValidatedRow(l, u) : l \in {10, 50}, u \in {None, Some(0)} }

PoolABC ==
    [r \in Rows |->
        CASE r = 1 -> ValidatedRow(50, None)
          [] r = 2 -> ValidatedRow(10, None)
          [] r = 3 -> ValidatedRow(5, Some(0))
          [] OTHER -> UntestedRow]

ClientInit ==
    /\ pc = [c \in Clients |-> "idle"]
    /\ ctx = [c \in Clients |-> "rotate"]
    /\ current_proxy = [c \in Clients |-> None]
    /\ row = [c \in Clients |-> None]
    /\ ret = [c \in Clients |-> "none"]
    /\ conc = [c \in Clients |-> [d \in Clients |-> 0]]
    /\ sess = [c \in Clients |-> NoSession]
    /\ bound = [c \in Clients |-> None]
    /\ outcome = [c \in Clients |-> None]
    /\ hist = [c \in Clients |-> HistInit]
    /\ job = NoJob
    /\ ingest = NoIngest
    /\ call = NoCall
    /\ served = << >>
    /\ flagged = [r \in Rows |-> "no"]

InitAcq ==
    /\ now = 1
    /\ pool \in [Rows -> AcqRows] \cup {PoolABC}
    /\ lock = [r \in Rows |-> None]
    /\ ClientInit

(* Which calls ran concurrently is recorded for the properties: when c  *)
(* starts a call, the calls in progress overlap it and it overlaps them. *)
Overlapping(c) == { d \in Clients \ {c} : pc[d] \in {"begin", "claimed"} }

TrackOverlap(c) ==
    conc' = [d \in Clients |->
               IF d = c
               THEN [e \in Clients |-> IF e \in Overlapping(c) THEN 1 ELSE 0]
               ELSE IF d \in Overlapping(c)
                    THEN [conc[d] EXCEPT ![c] = IF @ = 0 THEN 1 ELSE 2]
                    ELSE conc[d]]

NextAcq ==
    \/ \E c \in Clients : RotateCall(c) /\ TrackOverlap(c) /\ UNCHANGED << job, ingest, call, served, flagged >>
    \/ \E c \in Clients : RotateSelect(c) /\ UNCHANGED << conc, job, ingest, call, served, flagged >>
    \/ \E c \in Clients : RotateEmpty(c) /\ UNCHANGED << conc, job, ingest, call, served, flagged >>
    \/ \E c \in Clients : RotateCommit(c) /\ UNCHANGED << conc, job, ingest, call, served, flagged >>
    \/ Tick /\ UNCHANGED << conc, job, ingest, call, served, flagged >>

SpecAcq == InitAcq /\ [][NextAcq]_vars

(* Sessions over a pool that was ingested and validated before: the     *)
(* first k rows were validated at tick 1 and never used, the others are  *)
(* still untested.  Only the session steps and rotate_proxy run, within  *)
(* one tick of the store clock.                                          *)

SessPools ==
    { [r \in Rows |-> IF r <= k THEN ValidatedRow(10, None) ELSE UntestedRow] :
        k \in 0 .. NumRows }

InitSess ==
    /\ now = 1
    /\ pool \in SessPools
    /\ lock = [r \in Rows |-> None]
    /\ ClientInit

NextSess ==
    \/ \E c \in Clients : RotateCall(c) /\ UNCHANGED << conc, job, ingest, call, served, flagged >>
    \/ \E c \in Clients : RotateSelect(c) /\ UNCHANGED << conc, job, ingest, call, served, flagged >>
    \/ \E c \in Clients : RotateEmpty(c) /\ UNCHANGED << conc, job, ingest, call, served, flagged >>
    \/ \E c \in Clients : RotateCommit(c) /\ UNCHANGED << conc, job, ingest, call, served, flagged >>
    \/ \E c \in Clients : \E a \in BOOLEAN, n \in RetryChoices :
          SessionEnter(c, a, n) /\ UNCHANGED << conc, job, ingest, call, served, flagged >>
    \/ \E c \in Clients : EnterSelect(c) /\ UNCHANGED << conc, job, ingest, call, served, flagged >>
    \/ \E c \in Clients : EnterEmpty(c) /\ UNCHANGED << conc, job, ingest, call, served, flagged >>
    \/ \E c \in Clients : EnterCommit(c) /\ UNCHANGED << conc, job, ingest, call, served, flagged >>
    \/ \E c \in Clients : WorkOk(c) /\ UNCHANGED << conc, job, ingest, call, served, flagged >>
    \/ \E c \in Clients : WorkFailRaise(c) /\ UNCHANGED << conc, job, ingest, call, served, flagged >>
    \/ \E c \in Clients : WorkFailRotate(c) /\ UNCHANGED << conc, job, ingest, call, served, flagged >>
    \/ \E c \in Clients : RetrySelect(c) /\ UNCHANGED << conc, job, ingest, call, served, flagged >>
    \/ \E c \in Clients : RetryEmpty(c) /\ UNCHANGED << conc, job, ingest, call, served, flagged >>
    \/ \E c \in Clients : RetryCommit(c) /\ UNCHANGED << conc, job, ingest, call, served, flagged >>
    \/ \E c \in Clients : ReYield(c) /\ UNCHANGED << conc, job, ingest, call, served, flagged >>

SpecSess == InitSess /\ [][NextSess]_vars

(* Acquisition with each client's thread going on: a call that has begun *)
(* is not left forever before a statement it can run.                    *)
InitLive ==
    /\ now = 1
    /\ pool \in SessPools \cup {PoolABC}
    /\ lock = [r \in Rows |-> None]
    /\ ClientInit

ClientStep(c) ==
    (RotateSelect(c) \/ RotateEmpty(c) \/ RotateCommit(c))
        /\ UNCHANGED << conc, job, ingest, call, served, flagged >>

SpecAcqLive ==
    InitLive /\ [][NextAcq]_vars /\ \A c \in Clients : WF_vars(ClientStep(c))

(* Acquisitions against a store whose statements may fail *)
NextErr ==
    \/ \E c \in Clients : RotateCall(c) /\ UNCHANGED << conc, job, ingest, call, served, flagged >>
    \/ \E c \in Clients : RotateSelect(c) /\ UNCHANGED << conc, job, ingest, call, served, flagged >>
    \/ \E c \in Clients : RotateEmpty(c) /\ UNCHANGED << conc, job, ingest, call, served, flagged >>
    \/ \E c \in Clients : RotateCommit(c) /\ UNCHANGED << conc, job, ingest, call, served, flagged >>
    \/ \E c \in Clients, rollback_raises \in BOOLEAN :
          RotateStoreError(c, rollback_raises) /\ UNCHANGED << conc, job, ingest, call, served, flagged >>
    \/ Tick /\ UNCHANGED << conc, job, ingest, call, served, flagged >>

SpecErr == InitLive /\ [][NextErr]_vars

(* The helper after construction against an empty table: a maintenance   *)
(* job ingests and validates while one application instance acquires and *)
(* marks proxies bad, in any order.                                      *)

Apps == {"c1"}

Init ==
    /\ now = 0
    /\ pool = [r \in Rows |-> NoRow]
    /\ lock = [r \in Rows |-> None]
    /\ ClientInit

Next ==
    \/ \E items \in ItemLists : BulkUpsert(items) /\ UNCHANGED << conc, job, ingest, call, served, flagged >>
    \/ \E limit \in Limits : ValidateProxies(limit) /\ UNCHANGED << conc, job, ingest, call, served, flagged >>
    \/ \E limit \in {None, Some(1)} : TestAllProxies(limit) /\ UNCHANGED << conc, job, ingest, call, served, flagged >>
    \/ \E c \in Apps : RotateCall(c) /\ UNCHANGED << conc, job, ingest, call, served, flagged >>
    \/ \E c \in Apps : RotateSelect(c) /\ UNCHANGED << conc, job, ingest, call, served, flagged >>
    \/ \E c \in Apps : RotateEmpty(c) /\ UNCHANGED << conc, job, ingest, call, served, flagged >>
    \/ \E c \in Apps : RotateCommit(c) /\ UNCHANGED << conc, job, ingest, call, served, flagged >>
    \/ \E c \in Apps : \E m \in Messages : MarkCurrentBad(c, m) /\ UNCHANGED << conc, job, ingest, call, served, flagged >>
    \/ Tick /\ UNCHANGED << conc, job, ingest, call, served, flagged >>

Spec == Init /\ [][Next]_vars

(* Validation batches step by step against a table that another helper  *)
(* instance ingests into.  A batch runs within one tick of the store     *)
(* clock, whatever the tick.                                             *)

InitVal ==
    /\ now \in Times
    /\ pool = [r \in Rows |-> NoRow]
    /\ lock = [r \in Rows |-> None]
    /\ ClientInit

NextVal ==
    \/ \E items \in ItemLists : BulkUpsert(items) /\ UNCHANGED << conc, job, ingest, call, served, flagged >>
    \/ \E kind \in Kinds, limit \in Limits : \E condition \in Conditions(kind) :
          BatchSelect(kind, condition, limit) /\ UNCHANGED << conc, ingest, call, served, flagged >>
    \/ \E r \in Rows, o \in BatchOutcomes : BatchProbe(r, o) /\ UNCHANGED << conc, ingest, call, served, flagged >>
    \/ \E r \in Rows : BatchWrite(r) /\ UNCHANGED << conc, ingest, call, served, flagged >>
    \/ BatchCommit /\ UNCHANGED << conc, ingest, call, served, flagged >>
    \/ BatchInterruptExit /\ UNCHANGED << conc, ingest, call, served, flagged >>
    \/ BatchInterruptCommit /\ UNCHANGED << conc, ingest, call, served, flagged >>
    \/ \E r \in Rows, later_commit \in BOOLEAN :
          BatchDataError(r, later_commit) /\ UNCHANGED << conc, ingest, call, served, flagged >>

SpecVal == InitVal /\ [][NextVal]_vars

(* Refreshes of the pool between validation passes *)
InitIngest ==
    /\ now = 0
    /\ pool = [r \in Rows |-> NoRow]
    /\ lock = [r \in Rows |-> None]
    /\ ClientInit

NextIngest ==
    \/ \E lines \in Downloads : RefreshUpsert(lines) /\ UNCHANGED << conc, job, call, served, flagged >>
    \/ \E limit \in Limits : ValidateProxies(limit) /\ UNCHANGED << conc, job, ingest, call, served, flagged >>
    \/ Tick /\ UNCHANGED << conc, job, ingest, call, served, flagged >>

SpecIngest == InitIngest /\ [][NextIngest]_vars

(* Refreshes by one helper instance while another runs validate_proxies  *)
(* and an application client rotates, on an empty table or on one whose  *)
(* record has a validation a tick old: eligible still, and stale enough  *)
(* to be validated again.                                                *)
MixOutcomes == { Response(200, Body(0, Str("1.2.3.4", 7), 1), 10),
                 Failure(Str("timed out", ExcLimit + 100)) }

(* One source lists pair 1; later another lists pair 2 and pair 1 *)
MixDownloads ==
    { << Line("", 1, "github_socks5"), Line("socks5", 1, "github_socks5") >>,
      << Line("socks4", 2, "github"), Line("", 1, "github") >> }

InitMix ==
    /\ \/ now = 0 /\ pool = [r \in Rows |-> NoRow]
       \/ now = 2 /\ pool = [r \in Rows |-> IF r = 1 THEN ValidatedRow(10, None)
                                                      ELSE NoRow]
    /\ lock = [r \in Rows |-> None]
    /\ ClientInit

NextMix ==
    \/ \E lines \in MixDownloads : RefreshUpsert(lines) /\ UNCHANGED << conc, job, call, served, flagged >>
    \/ \E limit \in Limits :
          BatchSelect("validate_proxies", "-", limit) /\ UNCHANGED << conc, ingest, call, served, flagged >>
    \/ \E r \in Rows, o \in MixOutcomes : BatchProbe(r, o) /\ UNCHANGED << conc, ingest, call, served, flagged >>
    \/ \E r \in Rows : BatchWrite(r) /\ UNCHANGED << conc, ingest, call, served, flagged >>
    \/ BatchCommit /\ UNCHANGED << conc, ingest, call, served, flagged >>
    \/ \E c \in Apps : RotateCall(c) /\ UNCHANGED << conc, job, ingest, call, served, flagged >>
    \/ \E c \in Apps : RotateSelect(c) /\ UNCHANGED << conc, job, ingest, call, served, flagged >>
    \/ \E c \in Apps : RotateEmpty(c) /\ UNCHANGED << conc, job, ingest, call, served, flagged >>
    \/ \E c \in Apps : RotateCommit(c) /\ UNCHANGED << conc, job, ingest, call, served, flagged >>

SpecMix == InitMix /\ [][NextMix]_vars

(* One client calling rotate_proxy again and again on a pool that no     *)
(* one else writes; served lists the ids its calls returned.             *)

MaxServed == NumRows + 2

InitFair ==
    /\ now = 1
    /\ pool \in [Rows -> AcqRows]
    /\ lock = [r \in Rows |-> None]
    /\ ClientInit

NextFair ==
    \/ \E c \in Apps : /\ Len(served) < MaxServed
                        /\ RotateCall(c) /\ UNCHANGED << conc, job, ingest, call, served, flagged >>
    \/ \E c \in Apps : RotateSelect(c) /\ UNCHANGED << conc, job, ingest, call, served, flagged >>
    \/ \E c \in Apps : RotateEmpty(c) /\ UNCHANGED << conc, job, ingest, call, served, flagged >>
    \/ \E c \in Apps : /\ RotateCommit(c) /\ served' = Append(served, row[c][1].id)
                        /\ UNCHANGED << conc, job, ingest, call, flagged >>
    \/ Tick /\ UNCHANGED << conc, job, ingest, call, served, flagged >>

SpecFair == InitFair /\ [][NextFair]_vars

(* One client that rotates, opens sessions and flags its latched proxy *)
NextFlag ==
    \/ \E c \in Apps : RotateCall(c) /\ UNCHANGED << conc, job, ingest, call, served, flagged >>
    \/ \E c \in Apps : RotateSelect(c) /\ UNCHANGED << conc, job, ingest, call, served, flagged >>
    \/ \E c \in Apps : RotateEmpty(c) /\ UNCHANGED << conc, job, ingest, call, served, flagged >>
    \/ \E c \in Apps : RotateCommit(c) /\ UNCHANGED << conc, job, ingest, call, served, flagged >>
    \/ \E c \in Apps : \E m \in Messages :
          MarkCurrentBad(c, m) /\ UNCHANGED << conc, job, ingest, call, served, flagged >>
    \/ \E c \in Apps : \E a \in BOOLEAN, n \in RetryChoices :
          SessionEnter(c, a, n) /\ UNCHANGED << conc, job, ingest, call, served, flagged >>
    \/ \E c \in Apps : EnterSelect(c) /\ UNCHANGED << conc, job, ingest, call, served, flagged >>
    \/ \E c \in Apps : EnterEmpty(c) /\ UNCHANGED << conc, job, ingest, call, served, flagged >>
    \/ \E c \in Apps : EnterCommit(c) /\ UNCHANGED << conc, job, ingest, call, served, flagged >>
    \/ \E c \in Apps : WorkOk(c) /\ UNCHANGED << conc, job, ingest, call, served, flagged >>
    \/ \E c \in Apps : WorkFailRaise(c) /\ UNCHANGED << conc, job, ingest, call, served, flagged >>
    \/ \E c \in Apps : WorkFailRotate(c) /\ UNCHANGED << conc, job, ingest, call, served, flagged >>
    \/ \E c \in Apps : RetrySelect(c) /\ UNCHANGED << conc, job, ingest, call, served, flagged >>
    \/ \E c \in Apps : RetryEmpty(c) /\ UNCHANGED << conc, job, ingest, call, served, flagged >>
    \/ \E c \in Apps : RetryCommit(c) /\ UNCHANGED << conc, job, ingest, call, served, flagged >>
    \/ \E c \in Apps : ReYield(c) /\ UNCHANGED << conc, job, ingest, call, served, flagged >>

SpecFlag == InitSess /\ [][NextFlag]_vars

(* A client that rotates and flags its latched proxy while another       *)
(* helper instance runs validate_proxies, on records validated a tick    *)
(* ago.  flagged[r] is "no" until mark_current_bad flags record r; then  *)
(* "stale" while the running batch holds a probe of r that ended before  *)
(* the flag, else "yes"; the commit of a successful probe of r that did  *)
(* not end before the flag makes it "no" again.                          *)
FlaggedAfterMark(c) ==
    IF current_proxy[c] = None
    THEN flagged
    ELSE [flagged EXCEPT ![current_proxy[c][1].id] =
             IF current_proxy[c][1].id \in job.rows /\ job.probe[current_proxy[c][1].id] # None
             THEN "stale" ELSE "yes"]

FlaggedAfterCommit ==
    [r \in Rows |->
        IF r \notin BatchUpdates(job) THEN flagged[r]
        ELSE CASE flagged[r] = "stale" -> "yes"
               [] flagged[r] = "yes" /\ job.pending[r][1].working = 1 -> "no"
               [] OTHER -> flagged[r]]

InitRace ==
    /\ now = 2
    /\ pool \in SessPools
    /\ lock = [r \in Rows |-> None]
    /\ ClientInit

NextRace ==
    \/ \E limit \in Limits :
          BatchSelect("validate_proxies", "-", limit) /\ UNCHANGED << conc, ingest, call, served, flagged >>
    \/ \E r \in Rows, o \in MixOutcomes :
          BatchProbe(r, o) /\ UNCHANGED << conc, ingest, call, served, flagged >>
    \/ \E r \in Rows : BatchWrite(r) /\ UNCHANGED << conc, ingest, call, served, flagged >>
    \/ /\ BatchCommit /\ flagged' = FlaggedAfterCommit
       /\ UNCHANGED << conc, ingest, call, served >>
    \/ \E c \in Apps : RotateCall(c) /\ UNCHANGED << conc, job, ingest, call, served, flagged >>
    \/ \E c \in Apps : RotateSelect(c) /\ UNCHANGED << conc, job, ingest, call, served, flagged >>
    \/ \E c \in Apps : RotateEmpty(c) /\ UNCHANGED << conc, job, ingest, call, served, flagged >>
    \/ \E c \in Apps : RotateCommit(c) /\ UNCHANGED << conc, job, ingest, call, served, flagged >>
    \/ \E c \in Apps : \E m \in Messages :
          /\ MarkCurrentBad(c, m) /\ flagged' = FlaggedAfterMark(c)
          /\ UNCHANGED << conc, job, ingest, call, served >>

SpecRace == InitRace /\ [][NextRace]_vars

(* Calls of the helper functions that touch neither table nor latch *)
InitCall ==
    /\ now = 0
    /\ pool = [r \in Rows |-> NoRow]
    /\ lock = [r \in Rows |-> None]
    /\ ClientInit

NextCall ==
    \/ \E raw \in RawLines, default_type \in DefaultTypes :
          CallNormalize(raw, default_type)
            /\ UNCHANGED << conc, job, ingest, served, flagged >>
    \/ \E proxy_str \in ProxyStrs, proxy_type \in ProxyTypes,
          verbose \in BOOLEAN, works \in SUBSET Protocols :
          CallTestProxy(proxy_str, proxy_type, verbose, works)
            /\ UNCHANGED << conc, job, ingest, served, flagged >>

SpecCall == InitCall /\ [][NextCall]_vars

----------------------------------------------------------------------------
(* Vocabulary of the claims *)

(* A record is eligible: working=true and testedAt within the window. *)
Eligible(r, age) ==
    /\ pool[r].present
    /\ pool[r].working = 1
    /\ pool[r].tested_timestamp # None
    /\ (now - pool[r].tested_timestamp[1]) * MinutesPerTick <= age

Latched(c)   == current_proxy[c] # None
LatchedId(c) == current_proxy[c][1].id

(* The step of client c in which its locking SELECT returns. *)
SelectStep(c) == pc[c] = "begin" /\ pc'[c] # "begin"

(* Record a comes strictly before record b: never used before used, then *)
(* earliest lastUsedAt, then lowest latencyMs.                           *)
ComesBefore(a, b) ==
    LET ua == pool[a].last_used_timestamp
        ub == pool[b].last_used_timestamp
        la == pool[a].latency
        lb == pool[b].latency
    IN  \/ ua = None /\ ub # None
        \/ ua # None /\ ub # None /\ ua[1] < ub[1]
        \/ ua = ub /\ la # None /\ lb # None /\ la[1] < lb[1]

----------------------------------------------------------------------------
(* C1: under concurrent callers, in every reachable state the latches of *)
(* two distinct clients never reference the same record.                 *)
C1_NoSharedLatch ==
    \A c, d \in Clients :
        (c # d /\ Latched(c) /\ Latched(d)) => LatchedId(c) # LatchedId(d)

(* C2: two acquisition calls that ran concurrently with each other (and  *)
(* with no other call) against a pool that holds at least two eligible   *)
(* records both returned a record, and the two records are distinct.     *)
OnlyOverlap(c, d) ==
    /\ conc[c][d] = 1
    /\ \A e \in Clients \ {d} : conc[c][e] = 0

C2_ConcurrentCallsDistinct ==
    \A c, d \in Clients :
        ( /\ c # d
          /\ OnlyOverlap(c, d) /\ OnlyOverlap(d, c)
          /\ ret[c] \in {"row", "empty"} /\ ret[d] \in {"row", "empty"}
          /\ Cardinality({ r \in Rows : Eligible(r, RotateMaxAge) }) >= 2 )
        => /\ ret[c] = "row" /\ ret[d] = "row"
           /\ LatchedId(c) # LatchedId(d)

(* C3: each acquisition returns the eligible, unlocked record that is    *)
(* first under the order (never used, then least recently used, then     *)
(* lowest latency); and from the pool A (never used, 50), B (never used, *)
(* 10), C (used earlier, 5) successive acquisitions return B, A, C.      *)
Unlocked(c, r) == lock[r] \in {None, Some(c)}

ReturnsFirst(c) ==
    LET E == { r \in Rows : Eligible(r, RotateMaxAge) /\ Unlocked(c, r) }
    IN  IF E = {} THEN ret'[c] = "empty"
        ELSE /\ pc'[c] = "claimed"
             /\ row'[c] # None
             /\ row'[c][1].id \in E
             /\ \A q \in E : ~ ComesBefore(q, row'[c][1].id)

(* The pool is PoolABC but for the lastUsedAt of A and B *)
IsABC ==
    /\ \A r \in Rows : Eligible(r, RotateMaxAge) <=> r \in {1, 2, 3}
    /\ \A r \in {1, 2, 3} : pool[r].latency = PoolABC[r].latency
    /\ pool[3].last_used_timestamp = PoolABC[3].last_used_timestamp
    /\ pool[3].last_used_timestamp[1] < now
    /\ \A r \in Rows : lock[r] = None

UsedAB == { r \in {1, 2} : pool[r].last_used_timestamp # None }

ReturnsBAC(c) ==
    IsABC =>
        /\ row'[c] # None
        /\ UsedAB = {}     => row'[c][1].id = 2
        /\ UsedAB = {2}    => row'[c][1].id = 1
        /\ UsedAB = {1, 2} => row'[c][1].id = 3

C3_AcquisitionOrder ==
    [][\A c \in Clients : SelectStep(c) => (ReturnsFirst(c) /\ ReturnsBAC(c))]_vars

C3_Witness ==
    \E c \in Clients :
        /\ pc[c] = "claimed" /\ row[c][1].id = 3
        /\ \A r \in {1, 2, 3} : pool[r].latency = PoolABC[r].latency
        /\ UsedAB = {1, 2}
        /\ pool[3].last_used_timestamp = Some(0)

----------------------------------------------------------------------------
(* Sessions *)

(* The step in which the with-statement of client c hands its result to  *)
(* the caller, and the step in which session() is entered.               *)
SessionEnds(c) == outcome[c] = None /\ outcome'[c] # None

EntryStep(c) ==
    /\ pc[c] = "idle"
    /\ pc'[c] = "work" \/ (pc'[c] = "begin" /\ ctx'[c] = "enter")

(* C6: with auto-rotation on, a failed run is followed by a rotation and *)
(* a new run of the work while the retry budget lasts: a session that    *)
(* ends with a proxy latched and with fewer rotations than its budget    *)
(* ends in success, and its work ran once more than it rotated.          *)
C6_RetryRerunsWork ==
    [][\A c \in Clients :
          ( /\ SessionEnds(c)
            /\ sess[c].auto
            /\ hist'[c].rots < sess[c].retries
            /\ Latched(c) )
          => /\ outcome'[c] = Returned
             /\ hist'[c].runs = hist'[c].rots + 1]_vars

(* C7: a session with auto-rotation and a positive retry budget that     *)
(* ends in failure with a proxy latched has rotated as many times as its *)
(* budget, and the caller receives the error raised by the last run of   *)
(* the work.                                                             *)
C7_LastFailureSurfaced ==
    [][\A c \in Clients :
          ( /\ SessionEnds(c)
            /\ sess[c].auto /\ sess[c].retries >= 1
            /\ Latched(c)
            /\ outcome'[c] # Returned )
          => /\ hist'[c].rots = sess[c].retries
             /\ outcome'[c] = Raised(WorkError(hist'[c].runs))]_vars

----------------------------------------------------------------------------
(* The pool *)

(* C4: the record a locking SELECT of rotate_proxy returns has           *)
(* working=true and a testedAt no older than the maximum age at that     *)
(* moment; a record that is not working, or is stale, is not returned.   *)
C4_ReturnedIsEligible ==
    [][\A c \in Clients :
          (SelectStep(c) /\ pc'[c] = "claimed") =>
              /\ row'[c] # None
              /\ pool[row'[c][1].id].working = 1
              /\ pool[row'[c][1].id].tested_timestamp # None
              /\ (now - pool[row'[c][1].id].tested_timestamp[1]) * MinutesPerTick
                    <= RotateMaxAge]_vars

(* A record was returned while another one was working but stale *)
C4_Witness ==
    \E c \in Clients :
        /\ pc[c] = "claimed"
        /\ \E q \in Rows :
              /\ q # row[c][1].id
              /\ pool[q].working = 1
              /\ lock[q] = None
              /\ ~ Eligible(q, RotateMaxAge)

(* C5: when no record is eligible, the acquisition returns the empty     *)
(* outcome to its caller, leaves the latch empty and changes no record.  *)
C5_EmptyOutcome ==
    [][\A c \in Clients :
          ( /\ SelectStep(c)
            /\ \A r \in Rows : ~ Eligible(r, RotateMaxAge) )
          => /\ ret'[c] = "empty"
             /\ pc'[c] = "idle"
             /\ current_proxy'[c] = None
             /\ row'[c] = None
             /\ pool' = pool]_vars

(* An acquisition returned empty from a pool that holds a stale working  *)
(* record and a record that failed its test                              *)
C5_Witness ==
    \E c \in Clients :
        /\ ret[c] = "empty" /\ pc[c] = "idle" /\ current_proxy[c] = None
        /\ \E q \in Rows : pool[q].working = 1 /\ ~ Eligible(q, RotateMaxAge)
        /\ \E q \in Rows : pool[q].present /\ pool[q].working = 0
                               /\ pool[q].tested_timestamp # None

(* C9 as stated: mark_current_bad(reason) sets working=false and         *)
(* lastError = reason on the latched record and changes no other record; *)
(* with an empty latch it changes nothing.                               *)
MarkedWith(c, e) ==
    IF Latched(c)
    THEN /\ pool'[LatchedId(c)] =
               [pool[LatchedId(c)] EXCEPT !.working = 0, !.error_message = Some(e)]
         /\ \A r \in Rows \ {LatchedId(c)} : pool'[r] = pool[r]
    ELSE pool' = pool

C9_MarkSetsReason ==
    [][\A c \in Clients, m \in Messages :
          MarkCurrentBad(c, m) => MarkedWith(c, m)]_vars

(* C9, amended: lastError is set to the first 500 characters of the      *)
(* reason.                                                               *)
FirstChars(m, n) == Str(m.text, IF m.len <= n THEN m.len ELSE n)

C9_MarkSetsReasonPrefix ==
    [][\A c \in Clients, m \in Messages :
          MarkCurrentBad(c, m) =>
              /\ MarkedWith(c, FirstChars(m, 500))
              /\ current_proxy'[c] = current_proxy[c]]_vars

(* The latched record was marked bad and holds 500 characters of the     *)
(* reason, while another record is working                               *)
C9_Witness ==
    \E c \in Clients :
        /\ Latched(c)
        /\ pool[LatchedId(c)].working = 0
        /\ pool[LatchedId(c)].error_message = Some(Str("bad", 500))
        /\ \E r \in Rows \ {LatchedId(c)} : pool[r].working = 1

(* C10: a record with working=true has testedAt set and lastError        *)
(* absent.                                                               *)
C10_WorkingImpliesTested ==
    \A r \in Rows :
        (pool[r].present /\ pool[r].working = 1) =>
            /\ pool[r].tested_timestamp # None
            /\ pool[r].error_message = None

(* A record that was acquired earlier was validated again at a later     *)
(* tick and works, next to a record that test_all_proxies found working  *)
C10_Witness ==
    /\ \E r \in Rows : /\ pool[r].working = 1
                         /\ pool[r].last_used_timestamp # None
                         /\ pool[r].latency # None
                         /\ pool[r].tested_timestamp = Some(now)
                         /\ now > 0
    /\ \E r \in Rows : pool[r].working = 1 /\ pool[r].latency = None

----------------------------------------------------------------------------
(* Validation batches *)

(* The five outcome fields of a record *)
Five(x) ==
    << x.working, x.tested_timestamp, x.latency, x.tested_ip, x.error_message >>

(* The step records the probe of record r: the row its UPDATE wrote      *)
(* becomes the committed row.                                            *)
Records(r) ==
    /\ r \in job.rows
    /\ job.pending[r] # None
    /\ job'.pc = "idle"
    /\ pool'[r] = job.pending[r][1]

(* What the probe of record r gave *)
Probed(r) == job.probe[r][1]

(* A probe succeeded: status 200 and a body that, without the whitespace *)
(* around it, is non-empty and shorter than 50 characters.               *)
ShortLiteral(o) ==
    /\ o.kind = "response"
    /\ o.status = 200
    /\ o.text.core.len > 0
    /\ o.text.core.len < 50

(* C11: after a test that is recorded as failed, latencyMs is absent.    *)
C11_LatencyOnlyAfterSuccess ==
    [][\A r \in Rows :
          (Records(r) /\ pool'[r].working = 0) => pool'[r].latency = None]_vars

(* C12: whatever the entry point, recording a successful probe sets      *)
(* working=true, testedAt=now, latencyMs=the elapsed time, testedIp=the  *)
(* body and clears lastError.                                            *)
C12_SuccessRecorded ==
    [][\A r \in Rows :
          (Records(r) /\ ShortLiteral(Probed(r))) =>
              /\ pool'[r].working = 1
              /\ pool'[r].tested_timestamp = Some(now)
              /\ pool'[r].latency = Some(Probed(r).elapsed)
              /\ pool'[r].tested_ip = Some(Probed(r).text.core)
              /\ pool'[r].error_message = None]_vars

(* C13: whatever the entry point, recording a failed probe sets          *)
(* working=false, testedAt=now, clears latencyMs and testedIp and sets   *)
(* lastError to a non-empty string of at most 500 characters.            *)
C13_FailureRecorded ==
    [][\A r \in Rows :
          (Records(r) /\ ~ ShortLiteral(Probed(r))) =>
              /\ pool'[r].working = 0
              /\ pool'[r].tested_timestamp = Some(now)
              /\ pool'[r].latency = None
              /\ pool'[r].tested_ip = None
              /\ pool'[r].error_message # None
              /\ pool'[r].error_message[1].len > 0
              /\ pool'[r].error_message[1].len <= 500]_vars

(* The step ends the batch with the COMMIT of validate_proxies or of a   *)
(* test_* entry point, or with a KeyboardInterrupt.                      *)
BatchReturns  == job.pc = "writing" /\ job'.pc = "idle"
                    /\ job'.exc = None
BatchIsBroken == job.pc # "idle" /\ job'.exc = Some("KeyboardInterrupt")

(* The five outcome fields that recording the probe of r writes at time t *)
OutcomeOf(r, t) ==
    LET u == BatchResult(job.kind, Probed(r))
    IN  << u.ok, Some(t), u.latency, u.tested_ip, u.err >>

(* The same with tested_ip cut to the width of its column *)
StoredOutcomeOf(r, t) ==
    LET u == Stored(BatchResult(job.kind, Probed(r)))
    IN  << u.ok, Some(t), u.latency, u.tested_ip, u.err >>

(* C14: in every step, interrupted batch or not, the five outcome fields *)
(* of an existing record either stay as they are or become, all five,    *)
(* the outcome of the probe of that record in the running batch (as the  *)
(* columns hold it).                                                     *)
C14_OutcomeFieldsTogether ==
    [][\A r \in Rows :
          (pool[r].present /\ Five(pool'[r]) # Five(pool[r])) =>
              /\ r \in job.rows
              /\ job.probe[r] # None
              /\ Five(pool'[r]) = StoredOutcomeOf(r, now)]_vars

(* A batch of two records was interrupted in its write-back loop and the *)
(* open transaction was committed later: one record carries its outcome, *)
(* the other was never tested.                                           *)
C14_Witness ==
    /\ job.exc = Some("KeyboardInterrupt")
    /\ Cardinality(job.rows) = 2
    /\ \E r \in job.rows : /\ pool[r].tested_timestamp = Some(now)
                            /\ pool[r].latency = Some(10)
    /\ \E r \in job.rows : /\ pool[r].tested_timestamp = None
                            /\ pool[r].latency = Some(0)

(* C15: when a batch is interrupted, the outcome of every probe that had *)
(* completed is in the pool afterwards.                                  *)
C15_CompletedProbesPersisted ==
    [][BatchIsBroken =>
          \A r \in job.rows :
              job.probe[r] # None => Five(pool'[r]) = OutcomeOf(r, now)]_vars

(* C16: a batch ends by returning or by an interrupt, never by another  *)
(* error, whatever its probes gave; when it returns, every record it     *)
(* selected has an outcome recorded (testedAt set) and the number of     *)
(* those records is what it returns.                                     *)
C16_BatchRecordsAll ==
    [][/\ BatchReturns =>
             /\ \A r \in job.rows : pool'[r].tested_timestamp = Some(now)
             /\ job'.ret = Some(Cardinality(job.rows))
       /\ (job.pc \in {"probing", "writing"} /\ job'.pc = "idle") =>
             (BatchReturns \/ BatchIsBroken)]_vars

(* C17: a record is recorded as working only if its probe returned       *)
(* status 200 with a non-empty body shorter than 50 characters.          *)
C17_AcceptsOnlyShortLiteral ==
    [][\A r \in Rows :
          (Records(r) /\ pool'[r].working = 1) => ShortLiteral(Probed(r))]_vars

----------------------------------------------------------------------------
(* Ingestion *)

Count(p) == Cardinality({ r \in Rows : p[r].present })

(* The normalized row of the last line of `lines` that names pair k *)
LastSeen(lines, k) ==
    LET i == CHOOSE n \in 1 .. Len(lines) :
                 /\ lines[n].key = k
                 /\ \A m \in (n + 1) .. Len(lines) : lines[m].key # k
    IN  RefreshItems(lines)[i]

(* C18: after the upsert of a batch, the record of every pair the batch  *)
(* names carries the scheme and the source of the last line naming it.   *)
C18_LastSeenWins ==
    [][\A lines \in Downloads :
          RefreshUpsert(lines) =>
              \A k \in LineKeys(lines) :
                  /\ pool'[k].present
                  /\ pool'[k].proxy_url  = LastSeen(lines, k).proxy_url
                  /\ pool'[k].proxy_type = LastSeen(lines, k).proxy_type
                  /\ pool'[k].source     = LastSeen(lines, k).source]_vars

(* C19: no upsert changes working or testedAt of a record that exists,   *)
(* and the upsert of the lines the refresh before had already upserted,  *)
(* whatever validation ran in between, leaves the number of records and  *)
(* every record as they were.                                            *)
C19_IngestionIdempotent ==
    [][\A lines \in Downloads :
          RefreshUpsert(lines) =>
              /\ \A r \in Rows :
                    pool[r].present =>
                        /\ pool'[r].present
                        /\ pool'[r].working = pool[r].working
                        /\ pool'[r].tested_timestamp = pool[r].tested_timestamp
              /\ ingest.lines = lines =>
                    /\ Count(pool') = Count(pool)
                    /\ pool' = pool]_vars

(* The same lines were upserted a second time when one of their pairs    *)
(* had been validated as working, and that record still is.              *)
C19_Witness ==
    /\ ingest.again
    /\ \E k \in ingest.working : /\ pool[k].working = 1
                                 /\ pool[k].tested_timestamp # None

(* C20: a refresh that runs at any point of a validation batch or of an  *)
(* acquisition leaves the outcome fields and lastUsedAt of every record  *)
(* that exists, and the UPDATEs the batch has made, as they were; the    *)
(* outcome fields change only in the COMMIT of a batch, to the outcomes  *)
(* of its probes, and lastUsedAt only in the COMMIT of an acquisition,   *)
(* to its time.                                                          *)
C20_UpsertKeepsResults ==
    [][/\ \A lines \in Downloads :
             RefreshUpsert(lines) =>
                 /\ job'.pending = job.pending
                 /\ \A r \in Rows :
                       pool[r].present =>
                           /\ Five(pool'[r]) = Five(pool[r])
                           /\ pool'[r].last_used_timestamp
                                 = pool[r].last_used_timestamp
       /\ BatchReturns =>
             \A r \in job.rows : Five(pool'[r]) = StoredOutcomeOf(r, now)
       /\ \A c \in Apps :
             (pc[c] = "claimed" /\ pc'[c] = "idle") =>
                 pool'[row[c][1].id].last_used_timestamp = Some(now)
       /\ \A r \in Rows :
             pool[r].present =>
                 /\ Five(pool'[r]) # Five(pool[r]) => (BatchReturns /\ r \in job.rows)
                 /\ pool'[r].last_used_timestamp # pool[r].last_used_timestamp =>
                       \E c \in Apps : pc[c] = "claimed" /\ row[c][1].id = r]_vars

(* A refresh changed the source of a record while the batch that was     *)
(* probing it ran, and the batch has since returned with that record's   *)
(* outcome in the pool.                                                  *)
C20_Witness ==
    /\ job.pc = "idle" /\ job.ret # None /\ job.ret # Some(0)
    /\ ingest.during = "probing"
    /\ ~ingest.again
    /\ \E k \in ingest.batch \cap LineKeys(ingest.lines) :
          /\ pool[k].source = "github"
          /\ pool[k].working = 1
          /\ pool[k].tested_timestamp = Some(now)
          /\ pool[k].tested_ip # None

(* The lines "10.0.0.1:1080" and "http://10.0.0.2:8080" *)
EndToEndLines ==
    << Line("", 1, "github_socks5"), Line("http", 2, "github_http") >>

NewPairs(lines) == { k \in LineKeys(lines) : ~pool[k].present }

(* C21: a refresh adds one record for every pair of its lines that had   *)
(* none, with working=0, testedAt and lastUsedAt absent, of the type its *)
(* line resolves to (SOCKS5 and HTTP for the two lines of the example),  *)
(* and a record that was never tested is not eligible for acquisition.   *)
C21_NewRecordsUntested ==
    [][\A lines \in Downloads :
          RefreshUpsert(lines) =>
              /\ Count(pool') = Count(pool) + Cardinality(NewPairs(lines))
              /\ \A k \in NewPairs(lines) :
                    /\ pool'[k].present
                    /\ pool'[k].working = 0
                    /\ pool'[k].tested_timestamp = None
                    /\ pool'[k].last_used_timestamp = None
              /\ (lines = EndToEndLines /\ NewPairs(lines) = {1, 2}) =>
                    /\ pool'[1].proxy_type = "SOCKS5"
                    /\ pool'[2].proxy_type = "HTTP"
              /\ \A r \in Rows :
                    pool'[r].tested_timestamp = None =>
                        /\ ~ AcquireWhere(r, TRUE, RotateMaxAge)'
                        /\ ~ AcquireWhere(r, TRUE, DefaultMaxAge)']_vars

(* The two lines of the example were ingested into a pool that had       *)
(* neither pair.                                                         *)
C21_Witness ==
    /\ ingest.lines = EndToEndLines
    /\ ingest.created = {1, 2}
    /\ Count(pool) = 2
    /\ pool[1].proxy_type = "SOCKS5" /\ pool[2].proxy_type = "HTTP"
    /\ \A r \in {1, 2} : pool[r].working = 0 /\ pool[r].tested_timestamp = None

----------------------------------------------------------------------------
(* Helper functions *)

(* The grammar of a candidate line: an optional prefix out of http,      *)
(* https, socks5, socks4, then host:port with a port of 2 to 5 digits.   *)
Grammatical(raw) ==
    /\ raw.kind = "text"
    /\ raw.scheme \in {"", "http", "https", "socks5", "socks4"}
    /\ raw.host # {} /\ raw.host \subseteq {"alnum", ".", "-", ":"}
    /\ raw.digits \in 2 .. 5

(* The scheme of proxy_url is the one of proxy_type *)
SchemeAgrees(rec) ==
    << rec.proxy_type, rec.proxy_url >>
        \in { << "HTTP", "http" >>, << "SOCKS5", "socks5" >>, << "SOCKS4", "socks4" >> }

DeclaredProtocol(type) ==
    CASE type = "SOCKS5" -> "socks5"
      [] type = "SOCKS4" -> "socks4"
      [] type = "HTTP"   -> "http"

IsPrefix(a, b) == Len(a) <= Len(b) /\ \A i \in 1 .. Len(a) : a[i] = b[i]

(* The requests of one call: tried through the protocols of list, in its *)
(* order, up to the first that works; success exactly if one works.      *)
StopsAtFirst(res, list, works) ==
    /\ res.tried # << >>
    /\ IsPrefix(res.tried, list)
    /\ \A i \in 1 .. (Len(res.tried) - 1) : res.tried[i] \notin works
    /\ res.success <=> res.tried[Len(res.tried)] \in works
    /\ ~res.success => res.tried = list

(* C25: for a well-formed proxy string, plain or with the scheme of the  *)
(* declared type, test_proxy with a declared type tries, verbose off,    *)
(* the declared protocol only and, verbose on, the declared protocol     *)
(* first and then the other three in an order the declared type fixes;   *)
(* it succeeds at the first protocol that works and fails only when all  *)
(* of them failed.                                                       *)
C25_ProtocolsTried ==
    ( /\ call.fn = "test_proxy"
      /\ call.proxy_str.colon /\ call.proxy_str.port_int
      /\ call.proxy_type # None
      /\ call.proxy_str.scheme \in {"", DeclaredProtocol(call.proxy_type[1])} )
    => LET declared == DeclaredProtocol(call.proxy_type[1])
       IN  IF ~call.verbose
           THEN StopsAtFirst(call.result, << declared >>, call.works)
           ELSE LET list == Fallbacks(declared)
                IN  /\ Len(list) = 4 /\ list[1] = declared
                    /\ { list[i] : i \in 1 .. 4 }
                          = {"socks5", "socks4", "https", "http"}
                    /\ StopsAtFirst(call.result, list, call.works)

----------------------------------------------------------------------------
(* Acquisition under contention *)

(* C23: every acquisition call that has begun ends, with a record or     *)
(* with the empty outcome; at each point of a call its next statement    *)
(* can run whatever the other claimants hold; and a call whose SELECT    *)
(* runs while an eligible record is not locked by another claimant gets  *)
(* a record.                                                             *)
C23_AcquisitionNeverWaits ==
    /\ \A c \in Clients : (pc[c] = "begin") ~> (pc[c] = "idle")
    /\ [](\A c \in Clients : pc[c] \in {"begin", "claimed"} => ENABLED ClientStep(c))
    /\ [][\A c \in Clients :
            ( /\ SelectStep(c)
              /\ \E r \in Rows : AcquireWhere(r, TRUE, RotateMaxAge) /\ Unlocked(c, r) )
            => pc'[c] = "claimed"]_vars

(* Two claimants hold the locks of two different records at once *)
C23_Witness ==
    /\ pc["c1"] = "claimed" /\ pc["c2"] = "claimed"
    /\ row["c1"][1].id # row["c2"][1].id
    /\ \E r \in Rows : AcquireWhere(r, TRUE, RotateMaxAge) /\ OrderBefore(r, row["c2"][1].id)
                       /\ lock[r] = Some("c1")

----------------------------------------------------------------------------
(* Who writes which column *)

LastUsed(p) == [r \in Rows |-> p[r].last_used_timestamp]

Outcomes(p) == [r \in Rows |-> Five(p[r])]

(* C24: a statement of the validation batch leaves last_used_timestamp   *)
(* of every record as it is; a statement of an acquisition leaves the    *)
(* five outcome fields of every record as they are and changes           *)
(* last_used_timestamp of no record but the one it claimed, whatever     *)
(* the other of the two is doing meanwhile.                              *)
C24_DisjointFields ==
    [][ /\ job' # job => LastUsed(pool') = LastUsed(pool)
        /\ \A c \in Apps :
              pc'[c] # pc[c] =>
                  /\ Outcomes(pool') = Outcomes(pool)
                  /\ \A r \in Rows :
                        pool'[r].last_used_timestamp # pool[r].last_used_timestamp
                            => row[c] # None /\ row[c][1].id = r ]_vars

(* A batch has written, not yet committed, the outcome of a record that  *)
(* a client claimed in the same tick and holds latched: the row to be    *)
(* committed carries the client's stamp and the batch's outcome.         *)
C24_Witness ==
    \E r \in Rows, c \in Apps :
        /\ job.pc = "writing" /\ r \in job.rows /\ job.pending[r] # None
        /\ Latched(c) /\ LatchedId(c) = r
        /\ pool[r].last_used_timestamp = Some(now)
        /\ job.pending[r][1].last_used_timestamp = Some(now)
        /\ Five(job.pending[r][1]) # Five(pool[r])

----------------------------------------------------------------------------
(* The batch of validate_proxies *)

NeverTested(r) == pool[r].present /\ pool[r].tested_timestamp = None

(* C26: the batch validate_proxies(limit) selects has at most limit      *)
(* records, each never tested or tested longer ago than the staleness    *)
(* threshold, and holds a record tested before only if it holds every    *)
(* never-tested record of the pool.                                      *)
C26_BatchNeverTestedFirst ==
    [][\A limit \in Limits :
          BatchSelect("validate_proxies", "-", limit) =>
              /\ Cardinality(job'.rows) <= limit
              /\ \A r \in job'.rows : ValidateWhere(r, RetestStaleMinutes)
              /\ (\E r \in job'.rows : ~ NeverTested(r))
                    => \A q \in Rows : NeverTested(q) => q \in job'.rows ]_vars

----------------------------------------------------------------------------
(* Store errors *)

(* C27: an acquisition in which a statement of the store fails ends in   *)
(* an outcome that is neither a record nor the empty result, and leaves  *)
(* every record as it was.                                               *)
C27_StoreErrorIsNotEmpty ==
    [][\A c \in Clients, rollback_raises \in BOOLEAN :
          RotateStoreError(c, rollback_raises) =>
              /\ ret'[c] \notin {"row", "empty"}
              /\ pool' = pool ]_vars

----------------------------------------------------------------------------
(* Sessions that do not rotate *)

(* The with-body of client c fails in this step *)
WorkFails(c) == pc[c] = "work" /\ pc'[c] # "work" /\ outcome'[c] # Returned

(* C28: when the with-body of a session opened with auto_rotate_on_fail  *)
(* off, or with retries <= 0, fails, the caller gets that very failure,  *)
(* no acquisition starts, the latch keeps its proxy and no record        *)
(* changes.                                                              *)
C28_NoRotationWhenDisabled ==
    [][\A c \in Clients :
          (WorkFails(c) /\ (~ sess[c].auto \/ sess[c].retries <= 0)) =>
              /\ pc'[c] = "idle"
              /\ outcome'[c] = Raised(WorkError(hist[c].runs + 1))
              /\ current_proxy'[c] = current_proxy[c]
              /\ ret'[c] = ret[c]
              /\ pool' = pool /\ lock' = lock ]_vars

(* The first run of a with-body failed on a latched proxy and the        *)
(* failure came out of the scope with no rotation made                   *)
C28_Witness ==
    \E c \in Clients :
        /\ pc[c] = "idle" /\ Latched(c)
        /\ outcome[c] = Raised(WorkError(1))
        /\ hist[c].runs = 1 /\ hist[c].rots = 0
        /\ pool[LatchedId(c)].last_used_timestamp # None

----------------------------------------------------------------------------
(* Rotation over a fixed eligible set *)

(* C29: with no writer but the acquisitions themselves, a record         *)
(* returned by two acquisitions has every eligible record of the pool    *)
(* returned from the first of the two up to the second, whatever ticks   *)
(* the calls fall in.                                                    *)
C29_FairRotation ==
    \A i, j \in 1 .. Len(served) :
        (i < j /\ served[i] = served[j]) =>
            { r \in Rows : AcquireWhere(r, TRUE, RotateMaxAge) }
                \subseteq { served[k] : k \in i .. (j - 1) }

----------------------------------------------------------------------------
(* The transport's binding *)

(* C30: whenever session() is at a yield, the first one or one after a   *)
(* rotation, the transport is bound to the latched proxy, and to no      *)
(* proxy when the latch is empty.                                        *)
C30_BoundToLatched ==
    \A c \in Clients :
        pc[c] \in {"work", "reyield"} =>
            bound[c] = IF Latched(c)
                       THEN Some(RequestsProxyMapping(current_proxy[c][1]))
                       ELSE None

----------------------------------------------------------------------------
(* Sessions without a proxy *)

----------------------------------------------------------------------------
(* Flagging the latched proxy *)

(* The latched record of client c carries a flag *)
FlaggedLatch(c) ==
    /\ Latched(c)
    /\ pool[LatchedId(c)].working = 0
    /\ \E m \in Messages : pool[LatchedId(c)].error_message = Some(Slice(m, ErrLimit))

(* C32: mark_current_bad leaves the latch as it is; an entry of          *)
(* session() with a proxy latched, flagged or not, starts the with-body  *)
(* bound to that proxy and acquires nothing; and a latched proxy leaves  *)
(* the latch only in a step that begins a rotate_proxy call.             *)
C32_FlagKeepsLatch ==
    [][\A c \in Apps :
          /\ \A m \in Messages :
                MarkCurrentBad(c, m) => current_proxy'[c] = current_proxy[c]
          /\ (EntryStep(c) /\ Latched(c)) =>
                /\ pc'[c] = "work"
                /\ current_proxy'[c] = current_proxy[c]
                /\ bound'[c] = Some(RequestsProxyMapping(current_proxy[c][1]))
                /\ pool' = pool
          /\ (Latched(c) /\ current_proxy'[c] # current_proxy[c]) =>
                pc[c] \in {"idle", "work"} /\ pc'[c] = "begin" ]_vars

(* The with-body runs bound to the proxy the client flagged before it    *)
(* entered the scope                                                     *)
C32_Witness ==
    \E c \in Apps :
        /\ pc[c] = "work" /\ FlaggedLatch(c)
        /\ bound[c] = Some(RequestsProxyMapping(current_proxy[c][1]))

----------------------------------------------------------------------------
(* Flags against validation batches in flight *)

(* C33: the locking SELECT of an acquisition never returns a record that *)
(* mark_current_bad flagged, unless a probe that had not ended before    *)
(* the flag has recorded success for it since.                           *)
C33_FlaggedStaysOut ==
    [][\A c \in Apps :
          (SelectStep(c) /\ row'[c] # None) => flagged[row'[c][1].id] = "no" ]_vars

====
